---- MODULE Spec2Model ----
(***************************************************************************)
(* GemType: the global-hotkey manager (src/core/hotkey.py), the streaming  *)
(* completion client (src/core/gemini.py) and the hotkey-triggered run of  *)
(* the main window (src/gui/main_window.py, on_hotkey_triggered).          *)
(*                                                                         *)
(* Seven specifications: SpecHotkey (the manager's methods as whole        *)
(* calls), SpecLock (the same methods step by step, called from several    *)
(* threads), SpecClient (a completion client object and the calls made on  *)
(* it), Spec (the application: presses of the hotkey and the runs they     *)
(* start), SpecApp (the same with the service button and Quit),            *)
(* SpecSettings (the settings dialog, the service button and Quit acting   *)
(* on the manager and the config) and SpecSingle (the single-file script,  *)
(* src/gemtype_single.py).                                                 *)
(*                                                                         *)
(* Text is a sequence of code points (ord of each character); a sequence   *)
(* holding one negative number stands for a value that is no text.         *)
(***************************************************************************)
EXTENDS Integers, Sequences, FiniteSets

\* ------------------------------------------------------------------ bounds

\* Longest clipboard content / selection, in characters.
MaxLen == 2
\* Most chunks a response stream yields.
MaxChunks == 2
\* Most hotkey presses in a behaviour.
MaxPresses == 2
\* Handler activations that can exist side by side (slots).
MaxSlots == 2
\* Most OS-level registrations the keyboard library is let to hold.
MaxOsRegs == 2
\* Threads that call the hotkey manager's methods side by side.
MaxThreads == 2

\* ------------------------------------------------------- hotkey manager

VARIABLES
    hotkey,          \* HotkeyManager._hotkey
    hook,            \* HotkeyManager._hook: NoHook, or the handle add_hotkey returned
    is_registered,   \* HotkeyManager._is_registered
    osHotkeys,       \* the keyboard library's registrations made by the manager (a bag)
    last             \* the last manager call: operation, argument, result, OS calls made

DefaultHotkey == "ctrl+alt+space"
OtherHotkey == "ctrl+shift+g"
ThirdHotkey == "f9"
Hotkeys == {DefaultHotkey, OtherHotkey, ThirdHotkey}
EmptyHotkey == ""
\* What a caller may pass to set_hotkey.
HotkeyArgs == Hotkeys \cup {EmptyHotkey}
NoHook == "None"

NoRegs == [c \in HotkeyArgs |-> 0]
RECURSIVE SumOver(_, _)
SumOver(f, S) ==
    IF S = {} THEN 0
    ELSE LET c == CHOOSE x \in S : TRUE IN f[c] + SumOver(f, S \ {c})
\* Number of OS-level registrations that exist.
OsTotal(os) == SumOver(os, HotkeyArgs)

\* The manager's fields, the OS registrations, the OS calls made so far in
\* the current operation and the value last returned.
Mgr == [hotkey |-> hotkey, hook |-> hook, is_registered |-> is_registered,
        os |-> osHotkeys, calls |-> <<>>, ret |-> TRUE]

OsCall(fn, combo, ok) == [fn |-> fn, combo |-> combo, ok |-> ok]

\* HotkeyManager._register; ok: whether keyboard.add_hotkey succeeds.
register(m, ok) ==
    IF m.is_registered THEN [m EXCEPT !.ret = TRUE]
    ELSE IF ok
    THEN [m EXCEPT !.hook = m.hotkey,
                   !.is_registered = TRUE,
                   !.os = [m.os EXCEPT ![m.hotkey] = @ + 1],
                   !.calls = Append(@, OsCall("add_hotkey", m.hotkey, TRUE)),
                   !.ret = TRUE]
    ELSE [m EXCEPT !.calls = Append(@, OsCall("add_hotkey", m.hotkey, FALSE)),
                   !.ret = FALSE]

\* A variant of _unregister that clears the flag also when remove_hotkey raised.
unregisterAlwaysClears(m, ok) ==
    IF m.hook # NoHook
    THEN IF ok
         THEN [m EXCEPT !.os = [m.os EXCEPT ![m.hook] = @ - 1],
                        !.hook = NoHook,
                        !.is_registered = FALSE,
                        !.calls = Append(@, OsCall("remove_hotkey", m.hook, TRUE))]
         ELSE [m EXCEPT !.is_registered = FALSE,
                        !.calls = Append(@, OsCall("remove_hotkey", m.hook, FALSE))]
    ELSE [m EXCEPT !.is_registered = FALSE]

\* HotkeyManager._unregister; ok: whether keyboard.remove_hotkey succeeds.
\* When it raises, the except clause only logs: hook and flag stay.
unregister(m, ok) ==
    IF m.hook # NoHook
    THEN IF ok
         THEN [m EXCEPT !.os = [m.os EXCEPT ![m.hook] = @ - 1],
                        !.hook = NoHook,
                        !.is_registered = FALSE,
                        !.calls = Append(@, OsCall("remove_hotkey", m.hook, TRUE))]
         ELSE [m EXCEPT !.calls = Append(@, OsCall("remove_hotkey", m.hook, FALSE))]
    ELSE [m EXCEPT !.is_registered = FALSE]

\* A variant of the empty check that lets every argument through.
emptyCheckMissing(h) == FALSE

\* `if not hotkey` of set_hotkey.
isEmptyHotkey(h) == h = EmptyHotkey

\* A variant of set_hotkey's body that does not put the old combo back
\* before it registers again.
setHotkeyNoRevert(m, h, uOk, rOk, bOk) ==
    LET m1 == IF m.is_registered THEN unregister(m, uOk) ELSE m
        m2 == [m1 EXCEPT !.hotkey = h]
        m3 == register(m2, rOk)
    IN  IF ~m3.ret
        THEN [register(m3, bOk) EXCEPT !.ret = FALSE]
        ELSE [m3 EXCEPT !.ret = TRUE]

\* The body of set_hotkey under the lock. uOk, rOk, bOk: whether the OS
\* calls (remove the current, add the new, add the old one back) succeed.
setHotkeyLocked(m, h, uOk, rOk, bOk) ==
    LET m1 == IF m.is_registered THEN unregister(m, uOk) ELSE m
        old_hotkey == m1.hotkey
        m2 == [m1 EXCEPT !.hotkey = h]
        m3 == register(m2, rOk)
    IN  IF ~m3.ret
        THEN [register([m3 EXCEPT !.hotkey = old_hotkey], bOk) EXCEPT !.ret = FALSE]
        ELSE [m3 EXCEPT !.ret = TRUE]

\* HotkeyManager.set_hotkey.
set_hotkey(m, h, uOk, rOk, bOk) ==
    IF isEmptyHotkey(h) THEN [m EXCEPT !.ret = FALSE]
    ELSE setHotkeyLocked(m, h, uOk, rOk, bOk)

\* HotkeyManager.start.
start(m, ok) == IF ~m.is_registered THEN register(m, ok) ELSE m

\* HotkeyManager.stop.
stop(m, ok) == unregister(m, ok)

\* HotkeyManager.is_running.
is_running == is_registered

hkVars == <<hotkey, hook, is_registered, osHotkeys, last>>

PreState == [hotkey |-> hotkey, hook |-> hook, is_registered |-> is_registered,
             os |-> osHotkeys]

NoCall == [op |-> "none", arg |-> EmptyHotkey, ret |-> TRUE, raised |-> FALSE,
           calls |-> <<>>, pre |-> [hotkey |-> DefaultHotkey, hook |-> NoHook,
                                    is_registered |-> FALSE, os |-> NoRegs]]

\* The manager after a call that left it as m; no manager method lets an
\* exception out (each OS call sits in a try/except that logs).
Commit(m, op, arg, returns) ==
    /\ hotkey' = m.hotkey
    /\ hook' = m.hook
    /\ is_registered' = m.is_registered
    /\ osHotkeys' = m.os
    /\ last' = [op |-> op, arg |-> arg, ret |-> IF returns THEN m.ret ELSE TRUE,
                raised |-> FALSE, calls |-> m.calls, pre |-> PreState]

CallAllowed == OsTotal(osHotkeys) < MaxOsRegs

\* HotkeyManager.__init__(default_hotkey).
HotkeyInit ==
    /\ hotkey = DefaultHotkey
    /\ hook = NoHook
    /\ is_registered = FALSE
    /\ osHotkeys = NoRegs
    /\ last = NoCall

SetHotkey ==
    /\ CallAllowed
    /\ \E h \in HotkeyArgs, uOk \in BOOLEAN, rOk \in BOOLEAN, bOk \in BOOLEAN :
           Commit(set_hotkey(Mgr, h, uOk, rOk, bOk), "set_hotkey", h, TRUE)

Start ==
    /\ CallAllowed
    /\ \E ok \in BOOLEAN : Commit(start(Mgr, ok), "start", EmptyHotkey, FALSE)

Stop ==
    /\ CallAllowed
    /\ \E ok \in BOOLEAN : Commit(stop(Mgr, ok), "stop", EmptyHotkey, FALSE)

\* ------------------------------------------- the manager's lock and callers

VARIABLES
    lock,      \* HotkeyManager._lock: NoThread when free, else the thread holding it
    threads    \* per calling thread: the manager method it is in and where

Threads == 1..MaxThreads
NoThread == 0

\* The outcomes of the OS calls of one method call: the remove_hotkey (u),
\* the add_hotkey (r) and the add_hotkey of the rollback (b).
AllOk == [u |-> TRUE, r |-> TRUE, b |-> TRUE]

\* A thread outside the manager's methods. Inside one it records the
\* method (op), its argument (arg), where it is (pc), the local old_hotkey,
\* the manager as it was when the lock was taken (pre), the outcomes of the
\* OS calls made (oks) and the value to return (ret).
IdleThread == [pc |-> "idle", op |-> "none", arg |-> EmptyHotkey,
               old_hotkey |-> EmptyHotkey, pre |-> NoCall.pre, oks |-> AllOk,
               ret |-> TRUE]

lockVars == <<lock, threads>>
mgrVars == <<hotkey, hook, is_registered, osHotkeys>>

\* A variant of the lock that never makes a thread wait.
lockAlwaysFree == TRUE

\* threading.Lock: `with self._lock` enters only when no thread holds it.
lockFree == lock = NoThread

At(t, rec) == threads' = [threads EXCEPT ![t] = rec]
\* The manager's fields become those of m.
Fields(m) ==
    /\ hotkey' = m.hotkey
    /\ hook' = m.hook
    /\ is_registered' = m.is_registered
    /\ osHotkeys' = m.os

\* A thread calls set_hotkey(h): the empty check of lines 43-45 is made
\* before the lock is asked for.
CallSetHotkey(t) ==
    /\ threads[t].pc = "idle"
    /\ CallAllowed
    /\ \E h \in HotkeyArgs :
           At(t, [IdleThread EXCEPT !.op = "set_hotkey", !.arg = h,
                                    !.pc = IF isEmptyHotkey(h) THEN "rejected" ELSE "acquire",
                                    !.ret = ~isEmptyHotkey(h)])
    /\ UNCHANGED <<mgrVars, last, lock>>

\* A thread calls start().
CallStart(t) ==
    /\ threads[t].pc = "idle"
    /\ CallAllowed
    /\ At(t, [IdleThread EXCEPT !.op = "start", !.pc = "acquire"])
    /\ UNCHANGED <<mgrVars, last, lock>>

\* A thread calls stop().
CallStop(t) ==
    /\ threads[t].pc = "idle"
    /\ CallAllowed
    /\ At(t, [IdleThread EXCEPT !.op = "stop", !.pc = "acquire"])
    /\ UNCHANGED <<mgrVars, last, lock>>

\* `with self._lock:` is entered.
Acquire(t) ==
    /\ threads[t].pc = "acquire"
    /\ lockFree
    /\ lock' = t
    /\ At(t, [threads[t] EXCEPT !.pre = PreState,
                                !.pc = IF threads[t].op = "start" THEN "register"
                                       ELSE "unregister"])
    /\ UNCHANGED <<mgrVars, last>>

\* set_hotkey, lines 49-50: `if self._is_registered: self._unregister()`;
\* stop, line 116: `self._unregister()`.
Unregister(t) ==
    /\ threads[t].pc = "unregister"
    /\ \E ok \in BOOLEAN :
        /\ Fields(IF threads[t].op = "set_hotkey" /\ ~is_registered THEN Mgr
                  ELSE unregister(Mgr, ok))
        /\ At(t, [threads[t] EXCEPT !.oks.u = ok,
                                    !.pc = IF threads[t].op = "set_hotkey" THEN "assign"
                                           ELSE "release"])
    /\ UNCHANGED <<last, lock>>

\* set_hotkey, lines 53-54: old_hotkey = self._hotkey; self._hotkey = hotkey.
Assign(t) ==
    /\ threads[t].pc = "assign"
    /\ hotkey' = threads[t].arg
    /\ At(t, [threads[t] EXCEPT !.old_hotkey = hotkey, !.pc = "register"])
    /\ UNCHANGED <<hook, is_registered, osHotkeys, last, lock>>

\* set_hotkey, line 56: `if not self._register()`; start, lines 110-111:
\* `if not self._is_registered: self._register()`.
Register(t) ==
    /\ threads[t].pc = "register"
    /\ \E ok \in BOOLEAN :
        LET m == IF threads[t].op = "start" THEN start(Mgr, ok) ELSE register(Mgr, ok)
        IN  /\ Fields(m)
            /\ At(t, [threads[t] EXCEPT !.oks.r = ok,
                                        !.ret = m.ret,
                                        !.pc = IF threads[t].op = "set_hotkey" /\ ~m.ret
                                               THEN "revert" ELSE "release"])
    /\ UNCHANGED <<last, lock>>

\* set_hotkey, line 58: self._hotkey = old_hotkey.
Revert(t) ==
    /\ threads[t].pc = "revert"
    /\ hotkey' = threads[t].old_hotkey
    /\ At(t, [threads[t] EXCEPT !.pc = "reregister"])
    /\ UNCHANGED <<hook, is_registered, osHotkeys, last, lock>>

\* set_hotkey, lines 59-60: self._register(); return False.
Reregister(t) ==
    /\ threads[t].pc = "reregister"
    /\ \E ok \in BOOLEAN :
        /\ Fields(register(Mgr, ok))
        /\ At(t, [threads[t] EXCEPT !.oks.b = ok, !.ret = FALSE, !.pc = "release"])
    /\ UNCHANGED <<last, lock>>

\* The with statement is left and the method returns.
Release(t) ==
    /\ threads[t].pc = "release"
    /\ lock' = NoThread
    /\ At(t, IdleThread)
    /\ UNCHANGED <<mgrVars, last>>

\* set_hotkey returns False for an empty combo (line 45).
Rejected(t) ==
    /\ threads[t].pc = "rejected"
    /\ At(t, IdleThread)
    /\ UNCHANGED <<mgrVars, last, lock>>

\* No thread is inside a method of the manager.
LockIdle == lock = NoThread /\ threads = [t \in Threads |-> IdleThread]


\* ------------------------------------------------------------------- text

\* The characters str.strip() removes, those str.isspace() holds of: U+0009
\* to U+000D, U+001C to U+0020, U+0085, U+00A0, U+1680, U+2000 to U+200A,
\* U+2028, U+2029, U+202F, U+205F and U+3000.
Whitespace ==
    (9..13) \cup (28..32) \cup {133, 160, 5760} \cup (8192..8202)
        \cup {8232, 8233, 8239, 8287, 12288}
\* The characters a clipboard content or a selection is made of.
\* The space and the letter a.
ClipChars == {32, 97}
\* The cross mark an error text starts with, U+274C.
ErrorMark == 10060
\* The characters a chunk of a response is made of.
ChunkChars == {32, 97, ErrorMark}

\* The texts of at most n characters.
RECURSIVE TextsOver(_, _)
TextsOver(chars, n) ==
    IF n = 0 THEN {<<>>}
    ELSE LET shorter == TextsOver(chars, n - 1)
         IN  shorter \cup {Append(t, c) : t \in shorter, c \in chars}
ClipTexts == TextsOver(ClipChars, MaxLen)
\* A chunk's text: empty, one character, or None.
\* chunk.text of a chunk that carries no text part.
NoneText == <<-2>>
ChunkTexts == TextsOver(ChunkChars, 1) \cup {NoneText}
Streams == TextsOver(ChunkTexts, MaxChunks)

RECURSIVE lstrip(_)
lstrip(s) == IF s # <<>> /\ Head(s) \in Whitespace THEN lstrip(Tail(s)) ELSE s
RECURSIVE rstrip(_)
rstrip(s) ==
    IF s # <<>> /\ s[Len(s)] \in Whitespace THEN rstrip(SubSeq(s, 1, Len(s) - 1)) ELSE s
\* A variant of strip that trims the left end only.
stripLeftOnly(s) == lstrip(s)

\* str.strip()
strip(s) == rstrip(lstrip(s))

\* str.startswith of the cross mark.
startsWithMark(s) == Len(s) > 0 /\ s[1] = ErrorMark

\* ------------------------------------------------------ completion client

\* The text of the error message of a transport fault, str(e), shortened
\* to the letter e.
FaultMessage == <<101>>
\* f"<cross mark> Error: {str(e)}"
errorText(msg) == <<ErrorMark, 32>> \o msg

\* The for loop of generate_response over the chunks received:
\* `if chunk.text: full_response.append(chunk.text)`, then "".join.
RECURSIVE joinChunks(_)
joinChunks(chunks) ==
    IF chunks = <<>> THEN <<>>
    ELSE (IF Head(chunks) \notin {NoneText, <<>>} THEN Head(chunks) ELSE <<>>)
             \o joinChunks(Tail(chunks))

\* GeminiClient.generate_response on a stream that yields `chunks` and then
\* ends cleanly (fault = FALSE) or raises (fault = TRUE).
generate_response(chunks, fault) ==
    IF fault THEN errorText(FaultMessage) ELSE strip(joinChunks(chunks))

\* "".join(chunk.text for chunk in response) of the single-file script:
\* every chunk's text is joined, and a text that is None makes join raise.
RECURSIVE joinAll(_)
joinAll(chunks) ==
    IF chunks = <<>> THEN [text |-> <<>>, raised |-> FALSE]
    ELSE LET rest == joinAll(Tail(chunks))
         IN  [text |-> (IF Head(chunks) = NoneText THEN <<>> ELSE Head(chunks)) \o rest.text,
              raised |-> Head(chunks) = NoneText \/ rest.raised]

\* generate_response of the single-file script (gemtype_single.py): the
\* client, the request, the stream and the join are inside one try statement.
single_generate_response(chunks, fault) ==
    IF fault \/ joinAll(chunks).raised THEN errorText(FaultMessage)
    ELSE strip(joinAll(chunks).text)

VARIABLES
    api_key,   \* config.get("api_key")
    gclient,   \* a GeminiClient object: NoObject before __init__ ran, then its _client
    answer     \* the last call made on the object and how it ended

\* The default of the config: no key was entered.
EmptyKey == ""
SomeKey == "k"
ApiKeys == {EmptyKey, SomeKey}

NoObject == "no object"
\* self._client = None
NoTransport == "None"
Transport == "genai.Client"
\* What a call that raised returned: nothing.
NoValue == <<-3>>
\* The text of line 53, shortened to the letter i.
InitMessage == <<105>>

\* The outcomes of a request made with the key: without a key the service
\* answers no request, the stream raises.
Faults(key) == IF key = EmptyKey THEN {TRUE} ELSE BOOLEAN

\* GeminiClient._initialize_client on an object whose _client is t:
\* genai.Client(api_key=...) returns (ok) or raises, and then the except
\* clause logs and raises again, _client left as it was.
initialize_client(t, ok) ==
    IF ok THEN [client |-> Transport, raised |-> FALSE]
    ELSE [client |-> t, raised |-> TRUE]

\* A variant of the call whose try statement has no except clause: a failure
\* of the request or of the stream leaves the call as an exception.
generateResponseUncaught(t, initOk, chunks, fault) ==
    LET c == IF t = NoTransport THEN initialize_client(t, initOk)
             ELSE [client |-> t, raised |-> FALSE]
    IN  IF c.raised \/ (c.client # NoTransport /\ fault)
        THEN [client |-> c.client, ret |-> NoValue, raised |-> TRUE]
        ELSE IF c.client = NoTransport
             THEN [client |-> c.client, ret |-> errorText(InitMessage), raised |-> FALSE]
             ELSE [client |-> c.client, ret |-> generate_response(chunks, fault),
                   raised |-> FALSE]

\* GeminiClient.generate_response as a whole, on an object whose _client is
\* t: the initialization of lines 49-50 when _client is not set, the return
\* of line 53, then the try statement.
generate_response_call(t, initOk, chunks, fault) ==
    LET c == IF t = NoTransport THEN initialize_client(t, initOk)
             ELSE [client |-> t, raised |-> FALSE]
    IN  IF c.raised THEN [client |-> c.client, ret |-> NoValue, raised |-> TRUE]
        ELSE IF c.client = NoTransport
             THEN [client |-> c.client, ret |-> errorText(InitMessage), raised |-> FALSE]
             ELSE [client |-> c.client, ret |-> generate_response(chunks, fault),
                   raised |-> FALSE]

\* GeminiClient.test_connection: the canned request, then
\* `not response.startswith(<cross mark>)`; False when the request raised.
test_connection(t, initOk, chunks, fault) ==
    LET g == generate_response_call(t, initOk, chunks, fault)
    IN  [client |-> g.client,
         ret |-> IF g.raised THEN FALSE ELSE ~startsWithMark(g.ret),
         raised |-> FALSE]

clientVars == <<api_key, gclient, answer>>
NoAnswer == [op |-> "none", ret |-> NoValue, raised |-> FALSE, pre |-> NoObject,
             initOk |-> TRUE, chunks |-> <<>>, fault |-> FALSE]

\* GeminiClient(api_key, model): __init__ sets _client to None and calls
\* _initialize_client, whose exception it lets through: the caller then
\* gets no object, and may construct again.
Construct ==
    /\ gclient = NoObject
    /\ \E ok \in BOOLEAN :
        LET c == initialize_client(NoTransport, ok)
        IN  /\ gclient' = IF c.raised THEN NoObject ELSE c.client
            /\ answer' = [NoAnswer EXCEPT !.op = "__init__", !.raised = c.raised,
                                          !.pre = gclient, !.initOk = ok]
    /\ UNCHANGED api_key

\* A call of generate_response on the object.
GenerateResponse ==
    /\ gclient # NoObject
    /\ \E initOk \in BOOLEAN, chunks \in Streams, fault \in Faults(api_key) :
        LET g == generate_response_call(gclient, initOk, chunks, fault)
        IN  /\ gclient' = g.client
            /\ answer' = [op |-> "generate_response", ret |-> g.ret, raised |-> g.raised,
                          pre |-> gclient, initOk |-> initOk, chunks |-> chunks,
                          fault |-> fault]
    /\ UNCHANGED api_key

\* A call of test_connection on the object.
TestConnection ==
    /\ gclient # NoObject
    /\ \E initOk \in BOOLEAN, chunks \in Streams, fault \in Faults(api_key) :
        LET g == test_connection(gclient, initOk, chunks, fault)
        IN  /\ gclient' = g.client
            /\ answer' = [op |-> "test_connection", ret |-> g.ret, raised |-> g.raised,
                          pre |-> gclient, initOk |-> initOk, chunks |-> chunks,
                          fault |-> fault]
    /\ UNCHANGED api_key

\* A call of the single-file script's generate_response; it builds its own
\* transport and uses no client object.
SingleGenerateResponse ==
    /\ \E chunks \in Streams, fault \in BOOLEAN :
        answer' = [op |-> "single_generate_response",
                   ret |-> single_generate_response(chunks, fault), raised |-> FALSE,
                   pre |-> gclient, initOk |-> TRUE, chunks |-> chunks, fault |-> fault]
    /\ UNCHANGED <<api_key, gclient>>

\* No client object is in use.
ClientIdle == gclient = NoObject /\ answer = NoAnswer

\* ----------------------------------------------- the run of the main window

VARIABLES
    clipboard,           \* the system clipboard (pyperclip)
    show_notifications,  \* config.get("show_notifications")
    queued,              \* hotkey_triggered emissions posted to the UI thread, not yet
                         \* delivered, oldest first, each tagged: "idle" (emitted while
                         \* no run was in progress), "during" (while one was) or
                         \* "during_gen" (and generate_response was called before the
                         \* emission was delivered)
    presses,             \* hotkey presses so far (calls of _on_hotkey_pressed)
    runs,                \* per slot: the activation of on_hotkey_triggered in it
    workers,             \* per slot: the thread of the single-file script's on_hotkey in it
    config_hotkey,       \* config.get("hotkey")
    status_label,        \* the service status the main window shows
    app_quit             \* QApplication.quit() was called: the event loop has ended

Slots == 1..MaxSlots
\* A local that was not assigned yet: no text.
Unset == <<-1>>
\* The prompt sent when nothing was selected (the literal of line 338,
\* shortened to the letter f).
FallbackPrompt == <<102>>

\* An activation: where it is (pc), the handler's locals (original_clipboard,
\* prompt_text, response) and what it did so far: the clipboard when it began
\* (startClip), whether the copy keystroke was injected (captured), the text
\* read back before stripping (raw), the prompt given to generate_response
\* (passed; both are forgotten once the response has been examined),
\* whether the stream ended cleanly without a chunk (emptyStream), whether
\* generate_response returned from its line 83, the stream read to its end (clean),
\* the calls of pyperclip.copy(original_clipboard) (restores), the texts
\* pasted, the tray messages shown (notes), the steps that raised (faults)
\* and the tag of the emission that started it (trigger).
IdleRun == [pc |-> "Idle", original_clipboard |-> Unset, prompt_text |-> Unset,
            response |-> Unset, startClip |-> Unset, captured |-> FALSE,
            raw |-> Unset, passed |-> Unset, emptyStream |-> FALSE, clean |-> FALSE,
            restores |-> 0, pasted |-> <<>>, notes |-> <<>>, faults |-> 0,
            trigger |-> "idle"]

Active(r) == runs[r].pc # "Idle"

\* `prompt_text or <fallback>` of line 338.
promptFor(prompt_text) == IF prompt_text # <<>> THEN prompt_text ELSE FallbackPrompt

runVars == <<clipboard, show_notifications, queued, presses, runs>>
appVars == <<config_hotkey, status_label, app_quit>>
vars == <<hkVars, lockVars, runVars, clientVars, workers, appVars>>

\* A variant of the delivery rule in which every emission gets a thread of
\* its own (as the single-file script starts one per press).
uiThreadAlwaysFree == TRUE

\* hotkey_triggered is emitted on the keyboard library's thread and the
\* receiver lives in the UI thread: the slot is run by the UI thread's event
\* loop, which takes the next posted emission only when no slot is running.
uiThreadFree == \A r \in Slots : ~Active(r)

Set(r, rec) == runs' = [runs EXCEPT ![r] = rec]
\* The activation once `response.startswith(...)` was evaluated.
Examined(r) == [runs[r] EXCEPT !.raw = Unset, !.passed = Unset]

\* HotkeyManager._on_hotkey_pressed, called by the keyboard library while a
\* registration exists: emits hotkey_triggered.
HotkeyPress ==
    /\ OsTotal(osHotkeys) > 0
    /\ presses < MaxPresses
    /\ presses' = presses + 1
    /\ queued' = Append(queued,
                         IF \E r \in Slots : Active(r) /\ runs[r].response # Unset
                         THEN "during_gen"
                         ELSE IF \E r \in Slots : Active(r) THEN "during" ELSE "idle")
    /\ UNCHANGED <<hkVars, lockVars, clipboard, show_notifications, runs, clientVars, workers, appVars>>

\* The event loop delivers one emission: on_hotkey_triggered begins.
Deliver(r) ==
    /\ ~app_quit
    /\ queued # <<>>
    /\ uiThreadFree
    /\ ~Active(r)
    /\ \A q \in Slots : q < r => Active(q)
    /\ queued' = Tail(queued)
    /\ Set(r, [IdleRun EXCEPT !.pc = "snapshot", !.startClip = clipboard,
                               !.trigger = Head(queued)])
    /\ UNCHANGED <<hkVars, lockVars, clipboard, show_notifications, presses, clientVars, workers, appVars>>

Frame == UNCHANGED <<hkVars, lockVars, show_notifications, presses, clientVars, workers, appVars>>

\* line 316: original_clipboard = pyperclip.paste(); a failure is caught by
\* the outer except only.
Snapshot(r) ==
    /\ runs[r].pc = "snapshot"
    /\ \E ok \in BOOLEAN :
           Set(r, IF ok THEN [runs[r] EXCEPT !.original_clipboard = clipboard, !.pc = "clear"]
                  ELSE [runs[r] EXCEPT !.pc = "outer", !.faults = @ + 1])
    /\ UNCHANGED clipboard
    /\ UNCHANGED queued
    /\ Frame

\* line 320: pyperclip.copy('').
Clear(r) ==
    /\ runs[r].pc = "clear"
    /\ \E ok \in BOOLEAN :
           /\ clipboard' = IF ok THEN <<>> ELSE clipboard
           /\ Set(r, IF ok THEN [runs[r] EXCEPT !.pc = "copy"]
                     ELSE [runs[r] EXCEPT !.pc = "except", !.faults = @ + 1])
    /\ UNCHANGED queued
    /\ Frame

\* lines 322-326: the synthetic ctrl+c and the delay. The focused application
\* puts its selection, when there is one, on the clipboard.
Copy(r) ==
    /\ runs[r].pc = "copy"
    /\ \E ok \in BOOLEAN, selection \in ClipTexts :
           /\ clipboard' = IF ok /\ selection # <<>> THEN selection ELSE clipboard
           /\ Set(r, IF ok THEN [runs[r] EXCEPT !.pc = "read", !.captured = TRUE]
                     ELSE [runs[r] EXCEPT !.pc = "except", !.faults = @ + 1])
    /\ UNCHANGED queued
    /\ Frame

\* line 329: prompt_text = pyperclip.paste().strip().
ReadSelection(r) ==
    /\ runs[r].pc = "read"
    /\ \E ok \in BOOLEAN :
           Set(r, IF ok THEN [runs[r] EXCEPT !.raw = clipboard,
                                             !.prompt_text = strip(clipboard),
                                             !.pc = "client"]
                  ELSE [runs[r] EXCEPT !.pc = "except", !.faults = @ + 1])
    /\ UNCHANGED clipboard
    /\ UNCHANGED queued
    /\ Frame

\* line 337: GeminiClient(api_key, model); __init__ re-raises a failure of
\* the transport's construction.
CreateClient(r) ==
    /\ runs[r].pc = "client"
    /\ \E ok \in BOOLEAN :
           Set(r, IF ok THEN [runs[r] EXCEPT !.pc = "generate"]
                  ELSE [runs[r] EXCEPT !.pc = "except", !.faults = @ + 1])
    /\ UNCHANGED clipboard
    /\ UNCHANGED queued
    /\ Frame

\* A variant of the generate step that asks again when the request failed.
GenerateRetrying(r) ==
    /\ runs[r].pc = "generate"
    /\ \E chunks \in Streams, fault \in Faults(api_key) :
           Set(r, [runs[r] EXCEPT !.passed = promptFor(runs[r].prompt_text),
                                  !.response = generate_response(chunks, fault),
                                  !.emptyStream = (chunks = <<>> /\ ~fault),
                                  !.clean = ~fault,
                                  !.pc = IF fault /\ runs[r].response = Unset
                                         THEN "generate" ELSE "check"])
    /\ queued' = [i \in DOMAIN queued |->
                      IF queued[i] = "during" THEN "during_gen" ELSE queued[i]]
    /\ UNCHANGED clipboard
    /\ Frame

\* line 338: response = client.generate_response(prompt_text or <fallback>).
Generate(r) ==
    /\ runs[r].pc = "generate"
    /\ \E chunks \in Streams, fault \in Faults(api_key) :
           Set(r, [runs[r] EXCEPT !.passed = promptFor(runs[r].prompt_text),
                                  !.response = generate_response(chunks, fault),
                                  !.emptyStream = (chunks = <<>> /\ ~fault),
                                  !.clean = ~fault,
                                  !.pc = "check"])
    /\ queued' = [i \in DOMAIN queued |->
                      IF queued[i] = "during" THEN "during_gen" ELSE queued[i]]
    /\ UNCHANGED clipboard
    /\ Frame

\* lines 340-348: the response starts with the cross mark: notify, return.
ReportFailure(r) ==
    /\ runs[r].pc = "check"
    /\ startsWithMark(runs[r].response)
    /\ \/ /\ ~show_notifications
          /\ Set(r, [Examined(r) EXCEPT !.pc = "done"])
       \/ /\ show_notifications
          /\ \E ok \in BOOLEAN :
                 Set(r, IF ok THEN [Examined(r) EXCEPT !.notes = Append(@, "Critical"),
                                                      !.pc = "done"]
                        ELSE [Examined(r) EXCEPT !.pc = "except", !.faults = @ + 1])
    /\ UNCHANGED clipboard
    /\ UNCHANGED queued
    /\ Frame

\* line 353: pyperclip.copy(response).
WriteResponse(r) ==
    /\ runs[r].pc = "check"
    /\ ~startsWithMark(runs[r].response)
    /\ \E ok \in BOOLEAN :
           /\ clipboard' = IF ok THEN runs[r].response ELSE clipboard
           /\ Set(r, IF ok THEN [Examined(r) EXCEPT !.pc = "paste"]
                     ELSE [Examined(r) EXCEPT !.pc = "except", !.faults = @ + 1])
    /\ UNCHANGED queued
    /\ Frame

\* lines 354-357: the synthetic ctrl+v and the delay: the focused application
\* inserts the clipboard's content.
Paste(r) ==
    /\ runs[r].pc = "paste"
    /\ \E ok \in BOOLEAN :
           Set(r, IF ok THEN [runs[r] EXCEPT !.pasted = Append(@, clipboard),
                                             !.pc = "restore"]
                  ELSE [runs[r] EXCEPT !.pc = "except", !.faults = @ + 1])
    /\ UNCHANGED clipboard
    /\ UNCHANGED queued
    /\ Frame

\* line 360: pyperclip.copy(original_clipboard).
Restore(r) ==
    /\ runs[r].pc = "restore"
    /\ \E ok \in BOOLEAN :
           /\ clipboard' = IF ok THEN runs[r].original_clipboard ELSE clipboard
           /\ Set(r, IF ok THEN [runs[r] EXCEPT !.restores = @ + 1, !.pc = "notify"]
                     ELSE [runs[r] EXCEPT !.restores = @ + 1, !.pc = "except",
                                          !.faults = @ + 1])
    /\ UNCHANGED queued
    /\ Frame

\* lines 364-370: the Information message.
NotifySuccess(r) ==
    /\ runs[r].pc = "notify"
    /\ \/ /\ ~show_notifications
          /\ Set(r, [runs[r] EXCEPT !.pc = "after"])
       \/ /\ show_notifications
          /\ \E ok \in BOOLEAN :
                 Set(r, IF ok THEN [runs[r] EXCEPT !.notes = Append(@, "Information"),
                                                   !.pc = "after"]
                        ELSE [runs[r] EXCEPT !.pc = "except", !.faults = @ + 1])
    /\ UNCHANGED clipboard
    /\ UNCHANGED queued
    /\ Frame

\* A variant of the inner except that shows its message whatever the setting.
ExceptNotifyUngated(r) ==
    /\ runs[r].pc = "except"
    /\ \E ok \in BOOLEAN :
           Set(r, IF ok THEN [runs[r] EXCEPT !.notes = Append(@, "Critical"),
                                             !.pc = "except_restore"]
                  ELSE [runs[r] EXCEPT !.pc = "outer", !.faults = @ + 1])
    /\ UNCHANGED clipboard
    /\ UNCHANGED queued
    /\ Frame

\* lines 372-379: the inner except: the Critical message.
ExceptNotify(r) ==
    /\ runs[r].pc = "except"
    /\ \/ /\ ~show_notifications
          /\ Set(r, [runs[r] EXCEPT !.pc = "except_restore"])
       \/ /\ show_notifications
          /\ \E ok \in BOOLEAN :
                 Set(r, IF ok THEN [runs[r] EXCEPT !.notes = Append(@, "Critical"),
                                                   !.pc = "except_restore"]
                        ELSE [runs[r] EXCEPT !.pc = "outer", !.faults = @ + 1])
    /\ UNCHANGED clipboard
    /\ UNCHANGED queued
    /\ Frame

\* line 381: pyperclip.copy(original_clipboard) of the inner except.
ExceptRestore(r) ==
    /\ runs[r].pc = "except_restore"
    /\ \E ok \in BOOLEAN :
           /\ clipboard' = IF ok THEN runs[r].original_clipboard ELSE clipboard
           /\ Set(r, IF ok THEN [runs[r] EXCEPT !.restores = @ + 1, !.pc = "after"]
                     ELSE [runs[r] EXCEPT !.restores = @ + 1, !.pc = "outer",
                                          !.faults = @ + 1])
    /\ UNCHANGED queued
    /\ Frame

\* lines 383-384: the outer except logs.
LogCritical(r) ==
    /\ runs[r].pc = "outer"
    /\ Set(r, [runs[r] EXCEPT !.pc = "after"])
    /\ UNCHANGED clipboard
    /\ UNCHANGED queued
    /\ Frame

\* lines 387-398, after the try statement and outside any handler (every
\* path but the return of line 348 gets here): with show_notifications the
\* tray message "Hotkey pressed!", of level Information, then the status
\* bar message. An exception of either leaves on_hotkey_triggered.
AfterTry(r) ==
    /\ runs[r].pc = "after"
    /\ \E trayOk \in BOOLEAN, barOk \in BOOLEAN :
           LET shown == IF show_notifications /\ trayOk
                        THEN [runs[r] EXCEPT !.notes = Append(@, "Information")]
                        ELSE runs[r]
           IN  Set(r, IF show_notifications /\ ~trayOk
                      THEN [runs[r] EXCEPT !.pc = "raised", !.faults = @ + 1]
                      ELSE IF barOk THEN [shown EXCEPT !.pc = "done"]
                      ELSE [shown EXCEPT !.pc = "raised", !.faults = @ + 1])
    /\ UNCHANGED clipboard
    /\ UNCHANGED queued
    /\ Frame

\* An exception has left on_hotkey_triggered: the slot is over and the
\* event loop, when the process survives it, takes the next event.
Escape(r) ==
    /\ runs[r].pc = "raised"
    /\ Set(r, IdleRun)
    /\ UNCHANGED clipboard
    /\ UNCHANGED queued
    /\ Frame

\* on_hotkey_triggered returns to the event loop; its locals are gone.
Return(r) ==
    /\ runs[r].pc = "done"
    /\ Set(r, IdleRun)
    /\ UNCHANGED clipboard
    /\ UNCHANGED queued
    /\ Frame

\* ------------------------------------------- the main window's other slots

\* The main window as built (line 158), before _init_hotkey_manager.
AppFresh == config_hotkey = DefaultHotkey /\ status_label = "Stopped" /\ app_quit = FALSE
\* _init_hotkey_manager with auto_start: start() does not raise, the label
\* is set to Running (lines 223-226).
AppStarted == config_hotkey = DefaultHotkey /\ status_label = "Running" /\ app_quit = FALSE

AppFrame ==
    UNCHANGED <<lockVars, clipboard, queued, presses, runs, gclient, answer, workers>>

\* MainWindow.toggle_service, a slot of the UI thread: stop() when
\* is_running(), else start(); the label is set after either.
ToggleService ==
    /\ ~app_quit
    /\ uiThreadFree
    /\ CallAllowed
    /\ \E ok \in BOOLEAN :
        IF is_running
        THEN /\ Commit(stop(Mgr, ok), "stop", EmptyHotkey, FALSE)
             /\ status_label' = "Stopped"
        ELSE /\ Commit(start(Mgr, ok), "start", EmptyHotkey, FALSE)
             /\ status_label' = "Running"
    /\ UNCHANGED <<config_hotkey, app_quit, show_notifications, api_key>>
    /\ AppFrame

\* MainWindow.quit_application (the tray menu's Quit, or closeEvent without
\* a visible tray icon): stop(), then QApplication.quit(); the label is not
\* touched. After quit() the event loop delivers nothing more.
QuitApplication ==
    /\ ~app_quit
    /\ uiThreadFree
    /\ CallAllowed
    /\ \E ok \in BOOLEAN : Commit(stop(Mgr, ok), "stop", EmptyHotkey, FALSE)
    /\ app_quit' = TRUE
    /\ UNCHANGED <<config_hotkey, status_label, show_notifications, api_key>>
    /\ AppFrame

\* An API key of fewer characters than the settings dialog accepts.
ShortKey == "s"
\* What can stand in the dialog's API key field.
KeyFields == ApiKeys \cup {ShortKey}
\* The least length of a key the dialog accepts (`len(...) < 20`).
MinKeyLen == 20
\* len(api_key) of the keys the model tells apart.
KeyLen(k) == IF k = EmptyKey THEN 0 ELSE IF k = ShortKey THEN MinKeyLen - 1 ELSE MinKeyLen

\* SettingsDialog.save_settings with key k, combo h and notifications box n
\* in the dialog's fields: a non-empty key shorter than MinKeyLen is refused
\* with a warning, then an empty combo is; otherwise every field is stored
\* in the config and settings_saved is emitted, which runs
\* MainWindow.on_settings_saved in the same call: set_hotkey(config hotkey),
\* its result unused.
SaveSettings ==
    /\ ~app_quit
    /\ uiThreadFree
    /\ CallAllowed
    /\ \E k \in KeyFields, h \in HotkeyArgs, n \in BOOLEAN,
          uOk \in BOOLEAN, rOk \in BOOLEAN, bOk \in BOOLEAN :
        IF (k # EmptyKey /\ KeyLen(k) < MinKeyLen) \/ h = EmptyHotkey
        THEN UNCHANGED <<hkVars, config_hotkey, api_key, show_notifications>>
        ELSE /\ api_key' = k
             /\ show_notifications' = n
             /\ config_hotkey' = h
             /\ Commit(set_hotkey(Mgr, h, uOk, rOk, bOk), "set_hotkey", h, TRUE)
    /\ UNCHANGED <<status_label, app_quit>>
    /\ AppFrame

\* ------------------------------------------------- the single-file script

\* A thread of on_hotkey: where it is (pc), its locals prompt_text (kept
\* until it was given to generate_response) and response_text (kept until
\* it was pasted), whether generate_response read the stream to its end
\* (clean) and whether the paste keystroke was injected (pasted).
IdleWorker == [pc |-> "idle", prompt_text |-> Unset, response_text |-> Unset,
               clean |-> FALSE, pasted |-> FALSE]
\* The streams the script's threads receive: no chunk or one.
SingleStreams == TextsOver(ChunkTexts, 1)
NoWorkers == workers = [w \in Slots |-> IdleWorker]

Work(w, rec) == workers' = [workers EXCEPT ![w] = rec]
SingleFrame ==
    UNCHANGED <<hkVars, lockVars, show_notifications, queued, runs, clientVars, appVars>>

\* A variant of the press that starts no thread while one is running.
SinglePressGuarded ==
    /\ presses < MaxPresses
    /\ presses' = presses + 1
    /\ \E w \in Slots :
        /\ workers[w].pc = "idle"
        /\ \A v \in Slots : v < w => workers[v].pc # "idle"
        /\ IF \A v \in Slots : workers[v].pc = "idle"
           THEN Work(w, [IdleWorker EXCEPT !.pc = "read"])
           ELSE UNCHANGED workers
    /\ UNCHANGED clipboard
    /\ SingleFrame

\* main, line 56: the hotkey's callback starts a thread that runs on_hotkey,
\* whatever other threads are doing.
SinglePress ==
    /\ presses < MaxPresses
    /\ presses' = presses + 1
    /\ \E w \in Slots :
        /\ workers[w].pc = "idle"
        /\ \A v \in Slots : v < w => workers[v].pc # "idle"
        /\ Work(w, [IdleWorker EXCEPT !.pc = "read"])
    /\ UNCHANGED clipboard
    /\ SingleFrame

\* on_hotkey, lines 42-45: prompt_text = pyperclip.paste().strip(); return
\* when it is empty. An exception ends the thread.
SingleRead(w) ==
    /\ workers[w].pc = "read"
    /\ \E ok \in BOOLEAN :
        Work(w, IF ~ok THEN [workers[w] EXCEPT !.pc = "done"]
                ELSE [workers[w] EXCEPT !.prompt_text = strip(clipboard),
                                        !.pc = IF strip(clipboard) = <<>> THEN "done"
                                               ELSE "generate"])
    /\ UNCHANGED <<clipboard, presses>>
    /\ SingleFrame

\* on_hotkey, line 48: response_text = generate_response(prompt_text).
SingleGenerate(w) ==
    /\ workers[w].pc = "generate"
    /\ \E chunks \in SingleStreams, fault \in BOOLEAN :
        Work(w, [workers[w] EXCEPT
                    !.prompt_text = Unset,
                    !.response_text = single_generate_response(chunks, fault),
                    !.clean = ~fault /\ ~joinAll(chunks).raised,
                    !.pc = "copy"])
    /\ UNCHANGED <<clipboard, presses>>
    /\ SingleFrame

\* on_hotkey, line 51: pyperclip.copy(response_text).
SingleCopy(w) ==
    /\ workers[w].pc = "copy"
    /\ \E ok \in BOOLEAN :
        /\ clipboard' = IF ok THEN workers[w].response_text ELSE clipboard
        /\ Work(w, [workers[w] EXCEPT !.pc = IF ok THEN "paste" ELSE "done"])
    /\ UNCHANGED presses
    /\ SingleFrame

\* on_hotkey, line 52: pyautogui.hotkey("ctrl", "v"): the focused
\* application inserts the clipboard's content.
SinglePaste(w) ==
    /\ workers[w].pc = "paste"
    /\ \E ok \in BOOLEAN :
        Work(w, [workers[w] EXCEPT !.pasted = ok, !.response_text = Unset, !.pc = "done"])
    /\ UNCHANGED <<clipboard, presses>>
    /\ SingleFrame

\* on_hotkey returns and its thread ends.
SingleExit(w) ==
    /\ workers[w].pc = "done"
    /\ Work(w, IdleWorker)
    /\ UNCHANGED <<clipboard, presses>>
    /\ SingleFrame

RunInit ==
    /\ clipboard \in ClipTexts
    /\ show_notifications \in BOOLEAN
    /\ queued = <<>>
    /\ presses = 0
    /\ runs = [r \in Slots |-> IdleRun]

\* A manager alone: constructed, not started; nothing is triggered.
InitHotkey ==
    /\ HotkeyInit
    /\ clipboard = <<>>
    /\ show_notifications = TRUE
    /\ queued = <<>>
    /\ presses = 0
    /\ runs = [r \in Slots |-> IdleRun]
    /\ api_key = EmptyKey
    /\ ClientIdle
    /\ LockIdle
    /\ NoWorkers
    /\ AppFresh

\* A client object alone: the key is any, nothing is registered or triggered.
InitClient ==
    /\ HotkeyInit
    /\ clipboard = <<>>
    /\ show_notifications = TRUE
    /\ queued = <<>>
    /\ presses = 0
    /\ runs = [r \in Slots |-> IdleRun]
    /\ api_key \in ApiKeys
    /\ ClientIdle
    /\ LockIdle
    /\ NoWorkers
    /\ AppFresh

\* A manager and the threads that call it: constructed, not started.
InitLock ==
    /\ HotkeyInit
    /\ clipboard = <<>>
    /\ show_notifications = TRUE
    /\ queued = <<>>
    /\ presses = 0
    /\ runs = [r \in Slots |-> IdleRun]
    /\ api_key = EmptyKey
    /\ ClientIdle
    /\ LockIdle
    /\ NoWorkers
    /\ AppFresh

\* The single-file script after main registered its hotkey: the clipboard
\* holds what the user copied.
InitSingle ==
    /\ HotkeyInit
    /\ clipboard \in ClipTexts
    /\ show_notifications = TRUE
    /\ queued = <<>>
    /\ presses = 0
    /\ runs = [r \in Slots |-> IdleRun]
    /\ api_key = SomeKey
    /\ ClientIdle
    /\ LockIdle
    /\ NoWorkers
    /\ AppFresh

\* MainWindow._init_hotkey_manager with the default combo configured: the
\* manager is constructed; with auto_start (line 221) start() is called,
\* the registration succeeds or fails, and the label says Running; without
\* it (lines 232-235) nothing is called and the label says Stopped.
Launched ==
    \E auto_start \in BOOLEAN, ok \in BOOLEAN :
        IF auto_start
        THEN LET m == start([hotkey |-> DefaultHotkey, hook |-> NoHook,
                             is_registered |-> FALSE, os |-> NoRegs, calls |-> <<>>,
                             ret |-> TRUE], ok)
             IN  /\ hotkey = m.hotkey
                 /\ hook = m.hook
                 /\ is_registered = m.is_registered
                 /\ osHotkeys = m.os
                 /\ last = [NoCall EXCEPT !.op = "start", !.calls = m.calls]
                 /\ AppStarted
        ELSE HotkeyInit /\ AppFresh

\* The main window with a key entered and notifications on, launched with
\* or without auto_start, nothing on the clipboard.
InitApp ==
    /\ Launched
    /\ clipboard = <<>>
    /\ show_notifications = TRUE
    /\ queued = <<>>
    /\ presses = 0
    /\ runs = [r \in Slots |-> IdleRun]
    /\ api_key = SomeKey
    /\ ClientIdle
    /\ LockIdle
    /\ NoWorkers

\* MainWindow.__init__ with any settings of the key and of the
\* notifications, launched with or without auto_start.
Init ==
    /\ Launched
    /\ RunInit
    /\ api_key \in ApiKeys
    /\ ClientIdle
    /\ LockIdle
    /\ NoWorkers

NextHotkey ==
    \/ SetHotkey /\ UNCHANGED <<lockVars, runVars, clientVars, workers, appVars>>
    \/ Start /\ UNCHANGED <<lockVars, runVars, clientVars, workers, appVars>>
    \/ Stop /\ UNCHANGED <<lockVars, runVars, clientVars, workers, appVars>>

NextLock ==
    \E t \in Threads :
        \/ CallSetHotkey(t) /\ UNCHANGED <<runVars, clientVars, workers, appVars>>
        \/ CallStart(t) /\ UNCHANGED <<runVars, clientVars, workers, appVars>>
        \/ CallStop(t) /\ UNCHANGED <<runVars, clientVars, workers, appVars>>
        \/ Acquire(t) /\ UNCHANGED <<runVars, clientVars, workers, appVars>>
        \/ Unregister(t) /\ UNCHANGED <<runVars, clientVars, workers, appVars>>
        \/ Assign(t) /\ UNCHANGED <<runVars, clientVars, workers, appVars>>
        \/ Register(t) /\ UNCHANGED <<runVars, clientVars, workers, appVars>>
        \/ Revert(t) /\ UNCHANGED <<runVars, clientVars, workers, appVars>>
        \/ Reregister(t) /\ UNCHANGED <<runVars, clientVars, workers, appVars>>
        \/ Release(t) /\ UNCHANGED <<runVars, clientVars, workers, appVars>>
        \/ Rejected(t) /\ UNCHANGED <<runVars, clientVars, workers, appVars>>

NextSingle ==
    \/ SinglePress
    \/ \E w \in Slots :
        \/ SingleRead(w)
        \/ SingleGenerate(w)
        \/ SingleCopy(w)
        \/ SinglePaste(w)
        \/ SingleExit(w)

NextClient ==
    \/ Construct /\ UNCHANGED <<hkVars, lockVars, runVars, workers, appVars>>
    \/ GenerateResponse /\ UNCHANGED <<hkVars, lockVars, runVars, workers, appVars>>
    \/ TestConnection /\ UNCHANGED <<hkVars, lockVars, runVars, workers, appVars>>
    \/ SingleGenerateResponse /\ UNCHANGED <<hkVars, lockVars, runVars, workers, appVars>>

Next ==
    \/ HotkeyPress
    \/ \E r \in Slots :
        \/ Deliver(r)
        \/ Snapshot(r)
        \/ Clear(r)
        \/ Copy(r)
        \/ ReadSelection(r)
        \/ CreateClient(r)
        \/ Generate(r)
        \/ ReportFailure(r)
        \/ WriteResponse(r)
        \/ Paste(r)
        \/ Restore(r)
        \/ NotifySuccess(r)
        \/ ExceptNotify(r)
        \/ ExceptRestore(r)
        \/ LogCritical(r)
        \/ AfterTry(r)
        \/ Escape(r)
        \/ Return(r)

NextApp ==
    \/ ToggleService
    \/ QuitApplication
    \/ HotkeyPress
    \/ \E r \in Slots :
        \/ Deliver(r)
        \/ Snapshot(r)
        \/ Clear(r)
        \/ Copy(r)
        \/ ReadSelection(r)
        \/ CreateClient(r)
        \/ Generate(r)
        \/ ReportFailure(r)
        \/ WriteResponse(r)
        \/ Paste(r)
        \/ Restore(r)
        \/ NotifySuccess(r)
        \/ ExceptNotify(r)
        \/ ExceptRestore(r)
        \/ LogCritical(r)
        \/ AfterTry(r)
        \/ Escape(r)
        \/ Return(r)

\* The main application with its service button and its Quit entry.
SpecApp == InitApp /\ [][NextApp]_vars

NextSettings ==
    \/ ToggleService
    \/ SaveSettings
    \/ QuitApplication

\* The settings dialog, the service button and Quit acting on the manager
\* and on the config. A save is made while no run is active, so the runs
\* that follow it are those Spec starts from the saved settings.
SpecSettings == InitApp /\ [][NextSettings]_vars

\* The hotkey manager driven by its callers.
SpecHotkey == InitHotkey /\ [][NextHotkey]_vars

\* The hotkey manager called from several threads, step by step.
SpecLock == InitLock /\ [][NextLock]_vars

\* The single-file script: presses of its hotkey and the threads they start.
SpecSingle == InitSingle /\ [][NextSingle]_vars

\* A completion client driven by its callers.
SpecClient == InitClient /\ [][NextClient]_vars

\* The main application: presses of the registered hotkey and the runs they start.
Spec == Init /\ [][Next]_vars

\* ------------------------------------------------------------- properties

AddCalls == SelectSeq(last.calls, LAMBDA c : c.fn = "add_hotkey")
RemoveCalls == SelectSeq(last.calls, LAMBDA c : c.fn = "remove_hotkey")
\* The last call was set_hotkey with a non-empty combo on a registered
\* manager, and the registration of the new combo was attempted and failed.
RebindFailed ==
    /\ last.op = "set_hotkey"
    /\ last.arg # EmptyHotkey
    /\ last.pre.is_registered
    /\ Len(AddCalls) >= 1
    /\ AddCalls[1] = OsCall("add_hotkey", last.arg, FALSE)
ReRegistered == Len(AddCalls) = 2 /\ AddCalls[2].ok
ReRegisterFailed == Len(AddCalls) = 2 /\ ~AddCalls[2].ok
RegisteredWith(c) ==
    /\ hotkey = c
    /\ is_running
    /\ hook = c
    /\ osHotkeys[c] = 1
    /\ OsTotal(osHotkeys) = 1
Unregistered ==
    /\ ~is_running
    /\ hook = NoHook
    /\ OsTotal(osHotkeys) = 0

\* C1: when a run has ended, the clipboard holds what it held when the run
\* began, whatever was selected and whether the completion succeeded or
\* failed (no clipboard, keystroke or notification call raised).
C1_ClipboardRestored ==
    \A r \in Slots :
        (runs[r].pc = "done" /\ runs[r].faults = 0) => clipboard = runs[r].startClip

\* C2: a run that injected the copy keystroke has, when it ends, invoked the
\* restore write exactly once, on every exit path: success, generation
\* failure, and a fault of any one step.
C2_RestoreExactlyOnce ==
    \A r \in Slots :
        (runs[r].pc = "done" /\ runs[r].captured /\ runs[r].faults <= 1)
            => runs[r].restores = 1

\* C3: at most one run is between its delivery and its return at any time.
C3_AtMostOneRun == Cardinality({r \in Slots : Active(r)}) <= 1

\* C3 witness: a run is in progress while another press waits for delivery.
C3_Witness == \E r \in Slots : Active(r) /\ queued # <<>> /\ Head(queued) # "idle"

\* C4: a press made during a run that calls generate_response is dropped:
\* it starts no run later, so generate_response is not called a second time.
C4_SecondTriggerDropped ==
    \A r \in Slots : runs[r].trigger = "during_gen" => runs[r].response = Unset

\* C5 as claimed: a failed registration of the new combo leaves the manager
\* registered with the old one and set_hotkey returns False.
C5_RollbackKeepsOld ==
    RebindFailed => (last.ret = FALSE /\ RegisteredWith(last.pre.hotkey))

\* C5 as amended: a failed registration of the new combo makes set_hotkey
\* return False with the hotkey property back at the old combo; the manager
\* ends registered with the old combo when adding it back succeeds and
\* unregistered when that fails too.
C5_RollbackBestEffort ==
    RebindFailed =>
        /\ last.ret = FALSE
        /\ hotkey = last.pre.hotkey
        /\ ReRegistered \/ ReRegisterFailed
        /\ ReRegistered => RegisteredWith(last.pre.hotkey)
        /\ ReRegisterFailed => Unregistered

\* C5 witness: the new combo differs from the old, failed to register, and
\* the old one was added back.
C5_Witness == RebindFailed /\ ReRegistered /\ last.arg # last.pre.hotkey

\* C6: when both the new registration and the re-registration of the old
\* combo fail, the manager ends unregistered and the caller gets an error
\* besides the False return.
C6_DoubleFailureSurfaced ==
    (RebindFailed /\ ReRegisterFailed) =>
        (Unregistered /\ last.ret = FALSE /\ last.raised)

\* C7: set_hotkey with an empty combo returns False, makes no OS call and
\* leaves the combo, the flag, the hook and the OS registrations as they were.
C7_EmptyComboRejected ==
    (last.op = "set_hotkey" /\ last.arg = EmptyHotkey) =>
        (last.ret = FALSE /\ last.calls = <<>> /\ PreState = last.pre)

\* C7 witness: set_hotkey("") was called on a registered manager.
C7_Witness ==
    last.op = "set_hotkey" /\ last.arg = EmptyHotkey /\ last.pre.is_registered

\* C8: at most one OS-level registration exists, is_running() is True exactly
\* when one exists, and the flag and the stored hook never disagree.
C8_OneRegistration ==
    /\ OsTotal(osHotkeys) <= 1
    /\ is_running <=> OsTotal(osHotkeys) = 1
    /\ is_running <=> hook # NoHook
    /\ hook # NoHook => osHotkeys[hook] = 1

\* C8 witness: a stop whose OS-level unregister failed left the manager running.
C8_Witness ==
    /\ last.op = "stop"
    /\ Len(RemoveCalls) = 1
    /\ ~RemoveCalls[1].ok
    /\ is_running

\* p is t without its leading and trailing whitespace.
IsTrimOf(p, t) ==
    \E i \in 0..Len(t), j \in 0..Len(t) :
        /\ i + j <= Len(t)
        /\ p = SubSeq(t, i + 1, Len(t) - j)
        /\ \A k \in 1..i : t[k] \in Whitespace
        /\ \A k \in (Len(t) - j + 1)..Len(t) : t[k] \in Whitespace
        /\ p # <<>> => (p[1] \notin Whitespace /\ p[Len(p)] \notin Whitespace)

\* C9 as claimed: the prompt given to generate_response is the captured
\* text when that is non-empty, and the fallback prompt when it is empty.
C9_PromptIsCapturedText ==
    \A r \in Slots :
        runs[r].passed # Unset =>
            runs[r].passed = IF runs[r].raw # <<>> THEN runs[r].raw ELSE FallbackPrompt

\* C9 as amended: the prompt given to generate_response is the captured
\* text without its leading and trailing whitespace when that is non-empty,
\* and the fallback prompt otherwise.
C9_PromptIsTrimmedText ==
    \A r \in Slots :
        runs[r].passed # Unset =>
            \E p \in TextsOver(ClipChars, Len(runs[r].raw)) :
                /\ IsTrimOf(p, runs[r].raw)
                /\ runs[r].passed = IF p # <<>> THEN p ELSE FallbackPrompt

\* C9 witness: a captured text with whitespace around a non-empty core was
\* given to generate_response.
C9_Witness ==
    \E r \in Slots :
        /\ runs[r].passed \notin {Unset, FallbackPrompt}
        /\ runs[r].raw # runs[r].passed

\* C10: a stream that ends cleanly without a chunk makes generate_response
\* return a failure; the run pastes nothing and reports no success.
C10_EmptyStreamIsFailure ==
    \A r \in Slots :
        runs[r].emptyStream =>
            /\ startsWithMark(runs[r].response)
            /\ runs[r].pasted = <<>>
            /\ \A i \in 1..Len(runs[r].notes) : runs[r].notes[i] # "Information"

\* The last call found no transport and its initialization raised.
InitFailed == answer.pre = NoTransport /\ ~answer.initOk
\* The last call's request was served: the transport was there or could be
\* initialized, and the stream ended cleanly.
Served == ~InitFailed /\ ~answer.fault

\* C11: a call of generate_response never ends by raising: it returns, and
\* when the initialization of the transport, the request or the stream
\* failed what it returns is an error text.
C11_NoExceptionEscapes ==
    answer.op = "generate_response" =>
        /\ ~answer.raised
        /\ ~Served => startsWithMark(answer.ret)

\* C11 witness: a call of generate_response whose request or stream failed
\* has returned, and what it returned is the error text.
C11_Witness ==
    /\ answer.op = "generate_response"
    /\ answer.fault
    /\ ~answer.raised
    /\ answer.ret = errorText(FaultMessage)

\* C13: test_connection, called on a client whose transport is there,
\* returns True exactly when the canned request was served with a non-empty
\* text; it returns False for every failure and for a served but empty
\* response.
C13_TrueIffNonEmptySuccess ==
    (answer.op = "test_connection" /\ answer.pre = Transport) =>
        (answer.ret <=> (Served /\ strip(joinChunks(answer.chunks)) # <<>>))

\* The run in slot r was made with no api_key and has ended, and nothing
\* failed in it but the completion: the construction of the client raised,
\* or generate_response returned an error text.
UnsetKeyRunEnded(r) ==
    /\ api_key = EmptyKey
    /\ runs[r].pc = "done"
    /\ \/ runs[r].faults = 0 /\ runs[r].response # Unset
       \/ runs[r].faults = 1 /\ runs[r].prompt_text # Unset /\ runs[r].response = Unset

\* C12: a run made with no api_key ends as a failure, with exactly one
\* Critical message shown and the clipboard as it was when the run began.
C12_UnsetKeyReported ==
    \A r \in Slots :
        UnsetKeyRunEnded(r) =>
            /\ runs[r].response = Unset \/ startsWithMark(runs[r].response)
            /\ runs[r].notes = <<"Critical">>
            /\ clipboard = runs[r].startClip

\* The run in slot r got a text from generate_response that is no error
\* text, and no call of it raised.
Succeeding(r) ==
    /\ runs[r].faults = 0
    /\ runs[r].response # Unset
    /\ ~startsWithMark(runs[r].response)

\* What C14 says of the clipboard and of the order of paste and restore:
\* the text pasted is the response, the restore write is made after the
\* paste, and when the run has ended the clipboard holds what it held when
\* the run began.
PasteThenRestore(r) ==
    /\ runs[r].restores >= 1 => runs[r].pasted = <<runs[r].response>>
    /\ runs[r].pc \in {"notify", "after", "done"} =>
        /\ runs[r].pasted = <<runs[r].response>>
        /\ runs[r].restores = 1
        /\ clipboard = runs[r].startClip

\* C14: in a successful run the response is on the clipboard when the paste
\* is injected, the restore follows the paste and puts the initial content
\* back, and exactly one message, an Information one, is shown for the run
\* (with show_notifications on; none with it off).
C14_OneInfoWhenEnabled ==
    \A r \in Slots :
        Succeeding(r) =>
            /\ PasteThenRestore(r)
            /\ runs[r].pc = "done" =>
                runs[r].notes = IF show_notifications THEN <<"Information">> ELSE <<>>

\* The run in slot r has ended in a failure: a step raised, or
\* generate_response returned an error text.
FailedRunEnded(r) ==
    /\ runs[r].pc = "done"
    /\ runs[r].faults > 0 \/ (runs[r].response # Unset /\ startsWithMark(runs[r].response))

\* C15: with show_notifications on, a run that ended in a failure (one step
\* raised, or the generation failed) has shown exactly one Critical message,
\* whatever the failing step.
C15_OneCriticalPerFailure ==
    \A r \in Slots :
        (show_notifications /\ FailedRunEnded(r) /\ runs[r].faults <= 1)
            => runs[r].notes = <<"Critical">>

\* C16: with show_notifications off no tray message is shown by any run.
C16_NoMessageWhenOff ==
    ~show_notifications => \A r \in Slots : runs[r].notes = <<>>

\* C16 witness: with show_notifications off, a run went through the inner
\* except and has ended.
C16_Witness ==
    /\ ~show_notifications
    /\ \E r \in Slots : runs[r].pc = "done" /\ runs[r].faults > 0 /\ runs[r].restores > 0

\* The places of a run after a step of it raised: in a handler, or returned.
Handled == {"except", "except_restore", "outer", "after", "done"}

\* C17: an exception raised by any step of a run, the steps of the error
\* handler included, is caught inside on_hotkey_triggered: the run goes on
\* in a handler and returns, it never leaves by raising.
C17_NothingEscapes ==
    \A r \in Slots :
        /\ runs[r].pc # "raised"
        /\ runs[r].faults > 0 => runs[r].pc \in Handled

\* The places where a run waits: for the delay after the copy keystroke, for
\* the response of the service, for the delay after the paste keystroke.
Waiting == {"copy", "generate", "paste"}

\* C18: while a run waits on the network or on a clipboard delay, the UI
\* thread is free to take what its event loop holds next.
C18_UiFreeWhileRunWaits ==
    \A r \in Slots : runs[r].pc \in Waiting => uiThreadFree

\* C19: after stop(), as quit_application calls it, the manager is
\* Unregistered, also when the OS-level unregister call failed.
C19_StopAlwaysUnregisters ==
    last.op = "stop" => Unregistered

\* The places of a thread inside `with self._lock`.
Locked == {"unregister", "assign", "register", "revert", "reregister", "release"}

\* What the whole method, run alone on the manager as thread t found it when
\* it took the lock and with the same outcomes of the OS calls, leaves.
SerialResult(t) ==
    LET c == threads[t]
        m == [hotkey |-> c.pre.hotkey, hook |-> c.pre.hook,
              is_registered |-> c.pre.is_registered, os |-> c.pre.os,
              calls |-> <<>>, ret |-> TRUE]
    IN  CASE c.op = "set_hotkey" -> set_hotkey(m, c.arg, c.oks.u, c.oks.r, c.oks.b)
          [] c.op = "start" -> start(m, c.oks.r)
          [] c.op = "stop" -> stop(m, c.oks.u)

\* C20: at most one thread is between the steps of set_hotkey, start or stop
\* made under the lock, the thread that holds the lock, and when a call is
\* about to return the manager is what the call run alone would have left:
\* no other call's step came between its steps, and set_hotkey returns what
\* it returns run alone.
C20_CallsSerialized ==
    /\ \A t \in Threads : threads[t].pc \in Locked => lock = t
    /\ \A t \in Threads :
        threads[t].pc = "release" =>
            LET m == SerialResult(t)
            IN  /\ PreState = [hotkey |-> m.hotkey, hook |-> m.hook,
                               is_registered |-> m.is_registered, os |-> m.os]
                /\ threads[t].op = "set_hotkey" => threads[t].ret = m.ret

\* C20 witness: a set_hotkey call has unregistered the old combo and is about
\* to register the new one while another thread's call waits for the lock.
C20_Witness ==
    \E t \in Threads, w \in Threads :
        /\ threads[t].op = "set_hotkey"
        /\ threads[t].pc = "register"
        /\ threads[t].pre.is_registered
        /\ ~is_registered
        /\ threads[w].pc = "acquire"

\* C21: a run whose generate_response read the stream to its end goes on to
\* paste the text, whatever the text is, and a run whose generate_response
\* failed pastes nothing (no clipboard, keystroke or tray call raised).
C21_BranchFollowsResult ==
    \A r \in Slots :
        (runs[r].pc = "done" /\ runs[r].faults = 0 /\ runs[r].response # Unset) =>
            /\ runs[r].clean => runs[r].pasted = <<runs[r].response>>
            /\ ~runs[r].clean => runs[r].pasted = <<>>

\* The text of every chunk of a stream put together in arrival order; a
\* chunk without text adds nothing.
RECURSIVE Concat(_)
Concat(chunks) ==
    IF chunks = <<>> THEN <<>>
    ELSE LET c == chunks[Len(chunks)]
         IN  Concat(SubSeq(chunks, 1, Len(chunks) - 1)) \o (IF c = NoneText THEN <<>> ELSE c)

\* The last call was a generate_response, of the client or of the
\* single-file script, whose stream ended cleanly.
CleanStream ==
    \/ answer.op = "generate_response" /\ Served
    \/ answer.op = "single_generate_response" /\ ~answer.fault

\* C22: when the stream ends cleanly, generate_response returns the chunks'
\* texts put together in arrival order with the whitespace at both ends of
\* the whole removed and the rest kept, in the client and in the script.
C22_JoinedAndTrimmed ==
    CleanStream =>
        \E p \in TextsOver(ChunkChars, Len(Concat(answer.chunks))) :
            IsTrimOf(p, Concat(answer.chunks)) /\ answer.ret = p

\* What a step of the run in slot r respects: the clipboard is cleared after
\* the snapshot was read; generate_response is called after the clipboard
\* was read back, and once; the paste is injected after generate_response
\* returned and before any restore write; the restore write of the success
\* path follows the paste.
\* The places from which the next step ends the activation.
Ending == {"done", "raised"}

StepInOrder(r) ==
    /\ (runs[r].pc = "clear" /\ runs'[r].pc = "copy") =>
           runs[r].original_clipboard # Unset
    /\ (runs[r].pc \notin Ending /\ runs'[r].response # runs[r].response) =>
           (runs[r].prompt_text # Unset /\ runs[r].response = Unset)
    /\ (runs[r].pc \notin Ending /\ runs'[r].pasted # runs[r].pasted) =>
           (runs[r].response # Unset /\ runs[r].restores = 0 /\ runs[r].pasted = <<>>)
    /\ (runs[r].pc = "restore" /\ runs'[r].restores # runs[r].restores) =>
           runs[r].pasted = <<runs[r].response>>

\* C23: the steps of a run are made in the order capture, generate, emit,
\* restore, and generate_response is called at most once in a run.
C23_StepsInOrder == [][\A r \in Slots : StepInOrder(r)]_vars

\* C23 witness: a run has captured a selection, generated, pasted and
\* written the snapshot back, in this order and without a fault.
C23_Witness ==
    \E r \in Slots :
        /\ runs[r].pc = "notify"
        /\ runs[r].faults = 0
        /\ runs[r].prompt_text \notin {Unset, <<>>}
        /\ runs[r].pasted = <<runs[r].response>>
        /\ runs[r].restores = 1

\* C24: whenever set_hotkey(B) returns True the manager is registered with
\* B: the OS-level registration is for B and the hotkey property equals B,
\* also when the OS-level unregister of the previous combo failed.
C24_TrueMeansRegistered ==
    (last.op = "set_hotkey" /\ last.ret) => RegisteredWith(last.arg)

\* C25: the construction of a client does not raise when the transport
\* cannot be initialized, and a generate_response call made on a client
\* without a transport initializes it and, when that succeeds, serves the
\* request.
C25_LazyTransport ==
    /\ answer.op = "__init__" => ~answer.raised
    /\ (answer.op = "generate_response" /\ answer.pre = NoTransport /\ answer.initOk) =>
           /\ ~answer.raised
           /\ gclient = Transport
           /\ answer.ret = generate_response(answer.chunks, answer.fault)

\* The places of a script thread between its clipboard read and its paste.
Between == {"generate", "copy", "paste"}

\* C26: in the single-file script every press starts a thread of its own,
\* also while other threads are running: nothing guards a run in progress.
C26_EveryPressStartsAThread ==
    [][presses' # presses =>
          \E w \in Slots : workers[w].pc = "idle" /\ workers'[w].pc = "read"]_vars

\* C26 witness: two runs overlap: a second thread has read the clipboard
\* while the first is between its clipboard read and its paste.
C26_Witness ==
    \E a \in Slots, b \in Slots :
        /\ a # b
        /\ workers[a].pc \in Between
        /\ workers[b].pc \in Between

\* C27: after a stop() that left the manager Unregistered, and until the
\* next start() or set_hotkey, no run begins: an emission signalled before
\* the stop and not yet delivered starts none.
C27_NoRunAfterStop ==
    [][(last.op = "stop" /\ Unregistered) =>
           \A r \in Slots : Active(r)' => Active(r)]_vars

\* C28: after a settings save the combo the manager holds is the one stored
\* in the config, also when set_hotkey rolled back.
C28_ManagerHoldsConfigCombo ==
    last.op = "set_hotkey" => hotkey = config_hotkey

\* C29: set_hotkey called on an Unregistered manager leaves it Unregistered:
\* a settings save made while the window shows Stopped does not start the
\* service, so the label stays true.
C29_SetHotkeyKeepsStopped ==
    (last.op = "set_hotkey" /\ ~last.pre.is_registered /\ status_label = "Stopped") =>
        Unregistered

\* C30: the text of a failed generation is never put on the clipboard and
\* never pasted: a thread of the script that reaches the paste step, or has
\* sent the paste keystroke, holds the text of a generation that succeeded.
C30_ErrorTextNeverPasted ==
    \A w \in Slots :
        /\ workers[w].pc = "paste" => workers[w].clean
        /\ workers[w].pasted => workers[w].clean

====
